---- MODULE Spec2Model ----
(***************************************************************************)
(* Model of the content-addressed publish pipeline of allisterb/patr:      *)
(*   feed.CreateProfile            (src/unnamed/part_000, lines 60-122)    *)
(*   package ipfs                  (src/unnamed/part_000, lines 124-629)   *)
(* The remote pinning client (package w3s) is not part of the sources; its *)
(* three calls PutCar, GetName and PutName are modelled as a store keyed   *)
(* by CID and by name string.                                              *)
(***************************************************************************)
EXTENDS Integers, Sequences, FiniteSets, TLC

\* ------------------------------------------------------------------ bounds
MaxRuns == 2          \* CreateProfile invocations explored in one behaviour
MaxOps == 4           \* link-system / store calls explored in one behaviour
MaxStoreOps == 3      \* store calls explored in one behaviour of SpecStore
HashMod == 64         \* range of the modelled digest

\* ------------------------------------------------------- program constants
CidVersion == 1       \* cid.Prefix.Version
DagJSON == 297        \* cid.DagJSON  (multicodec 0x0129)
SHA3_384 == 21        \* mh.SHA3_384  (multicodec 0x15)
MhLength == 48        \* cid.Prefix.MhLength
Libp2pKey == 114      \* codec of peer.ToCid (multicodec 0x72)
BaseSeq == 1          \* var seq uint64 = 1
LpVersion == 1        \* LinkPrototype Prefix.Version
LpCodec == 297        \* LinkPrototype Prefix.Codec: cid.DagJSON
LpMhType == 21        \* LinkPrototype Prefix.MhType: mh.SHA3_384
LpMhLength == 48      \* LinkPrototype Prefix.MhLength

Procs == {1, 2}
Main == 1             \* the caller whose invocations follow one another
Dids == {1, 2}
PubKeys == {11, 12}
PrivKeys == {11, 12}  \* private key k is the one matching public key k

\* ------------------------------------------------------------ pure helpers
RECURSIVE PolyHash(_, _)
PolyHash(b, h) ==
    IF b = <<>> THEN h ELSE PolyHash(Tail(b), (h * 31 + Head(b)) % HashMod)

\* multihash digest of a byte sequence
Digest(b) == PolyHash(b, 7)

\* dagjson.Encode(bindnode.Wrap(&Profile{Did: d})): {"Did":"<d>"}
EncodeProfile(d) == <<123, 68, 105, 100, 58, d, 125>>

\* cid.Prefix{Version: 1, Codec: DagJSON, MhType: SHA3_384, MhLength: 48}.Sum
CidPrefixSum(b) == <<CidVersion, DagJSON, SHA3_384, MhLength, Digest(b)>>

\* peer.ToCid(peer.IDFromPublicKey(pub))
PeerCid(pub) == <<CidVersion, Libp2pKey, 0, 0, pub>>

\* GetIPNSPublicKeyName: the base36 string of the key's CID
GetIPNSPublicKeyName(pub) == <<"k", PeerCid(pub)>>

\* ipfspath.IpfsPath(cid).String()
IpfsPathString(c) == <<"/ipfs/", c>>

AllCids == {CidPrefixSum(EncodeProfile(d)) : d \in Dids}
Names == {GetIPNSPublicKeyName(k) : k \in PubKeys}
Paths == {IpfsPathString(c) : c \in AllCids}
NameKeys == Names \cup Paths      \* strings the remote name API can be asked


\* ------------------------------------------------ remote service (package w3s)
\* w3s.WriteCar(ctx, dag, []cid.Cid{c}, &buf): the block and what it links to
WriteCar(store, c) == [root |-> c, blocks |-> {b \in store : b[1] = c}]

\* Client.PutCar: the upload is keyed by its content
PutCar(remote, car) == remote \cup {car}

\* Client.GetName(ctx, key): the record stored under the string key, or nil
GetName(names, key) == names[key]

\* Client.PutName(ctx, record, name)
PutName(names, rec, name) == [names EXCEPT ![name] = <<rec>>]

HasBlock(store, c) == \E b \in store : b[1] = c

\* the node's blockstore keeps the block it already has for a CID
StorePut(store, blk) == IF HasBlock(store, blk[1]) THEN store ELSE store \cup {blk}

\* bytes of the block stored for c
BlockData(store, c) == (CHOOSE b \in store : b[1] = c)[2]

\* --------------------------------------------------------------- variables
VARIABLES
    pc,          \* position of each CreateProfile invocation
    cfg,         \* node.CurrentConfig seen by the invocation
    node,        \* state of the IPFS node the invocation started
    subscribed,  \* whether the "patr" topic subscription was established
    localStore,  \* blocks pinned in the node's datastore
    buf,         \* bytes.Buffer holding the encoded profile
    xcid,        \* the derived CID (<<>> before derivation)
    seq,         \* local seq of PublishIPNSRecordForDAGNodeToW3S
    nr,          \* the record built by ipns.Create (<<>> before)
    err,         \* the err local of CreateProfile after its last call
    ret,         \* value returned by CreateProfile ("none" while running)
    shutdowns,   \* number of ipfsShutdown() invocations in this run
    trace,       \* calls made by this run, in order
    cancelled,   \* ctx.Done() is closed
    caller,      \* who called PublishIPNSRecordForDAGNodeToW3S in this run
    saw,         \* number of records the remote service had stored at lookup
    dhtNames,    \* name records announced through the local node
    remoteCars,  \* archives held by the remote service
    remoteNames, \* name records held by the remote service
    published,   \* records stored by successful PutName calls, in order
    runs,        \* CreateProfile invocations started so far
    core,        \* the IPFSCore serving the link system: its node's blocks
    lw,          \* the IPFSLinkWriter handed out by OpenWrite (<<>> if none)
    rd,          \* result of the last OpenRead since the writer was touched
    w3sLog,      \* PinIPLDBlockToW3S calls made by IPFSCore.Put, in order
    hs,          \* result of the last IPFSCore.Has (<<>> if none)
    evLink,      \* bytes and link of the last PutNostrEventAsIPLDLink
    pt,          \* what the last IPFSCore.Put did and returned (<<>> if none)
    ops          \* link-system and store calls made so far

procVars == <<pc, cfg, node, subscribed, localStore, buf, xcid, seq, nr, err,
              ret, shutdowns, trace, cancelled, caller, saw>>
remoteVars == <<dhtNames, remoteCars, remoteNames, published>>
lsVars == <<core, lw, rd, w3sLog, hs, evLink, pt, ops>>
vars == <<procVars, remoteVars, runs, lsVars>>

NoCfg == [did |-> 0, priv |-> 0, pub |-> 0]
Configs == [did : Dids, priv : PrivKeys, pub : PubKeys]

\* one call of a run: what was called, for which CID, and the error it gave
Ev(op, c, e) == [op |-> op, cid |-> c, err |-> e]

InitProc ==
    /\ pc = [p \in Procs |-> "idle"]
    /\ cfg = [p \in Procs |-> NoCfg]
    /\ node = [p \in Procs |-> "none"]
    /\ subscribed = [p \in Procs |-> FALSE]
    /\ localStore = [p \in Procs |-> {}]
    /\ buf = [p \in Procs |-> <<>>]
    /\ xcid = [p \in Procs |-> <<>>]
    /\ seq = [p \in Procs |-> 0]
    /\ nr = [p \in Procs |-> <<>>]
    /\ err = [p \in Procs |-> "nil"]
    /\ ret = [p \in Procs |-> "none"]
    /\ shutdowns = [p \in Procs |-> 0]
    /\ trace = [p \in Procs |-> <<>>]
    /\ cancelled = [p \in Procs |-> FALSE]
    /\ caller = [p \in Procs |-> "none"]
    /\ saw = [p \in Procs |-> 0]

InitRemote ==
    /\ dhtNames = {}
    /\ remoteCars = {}
    /\ remoteNames = [k \in NameKeys |-> <<>>]
    /\ published = <<>>

InitLS ==
    /\ core = [blocks |-> {}]
    /\ lw = <<>>
    /\ rd = <<>>
    /\ w3sLog = <<>>
    /\ hs = <<>>
    /\ evLink = <<>>
    /\ pt = <<>>
    /\ ops = 0

Init == InitProc /\ InitRemote /\ InitLS /\ runs = 0

\* a blocking call made with a cancelled context returns the context's error
Outcomes(p, S) == IF cancelled[p] THEN {"cancelled"} ELSE S

\* return e  (no node to shut down, or the caller was given none)
Return(p, e) ==
    /\ pc' = [pc EXCEPT ![p] = "done"]
    /\ ret' = [ret EXCEPT ![p] = e]

\* return e, leaving the node running
ReturnWithoutShutdown(p, e) ==
    /\ Return(p, e)
    /\ UNCHANGED <<shutdowns, node>>

\* ipfsShutdown(); return e
ShutdownAndReturn(p, e) ==
    /\ shutdowns' = [shutdowns EXCEPT ![p] = @ + 1]
    /\ node' = [node EXCEPT ![p] = "closed"]
    /\ Return(p, e)

Log(p, e) == trace' = [trace EXCEPT ![p] = Append(@, e)]

Goto(p, l) == pc' = [pc EXCEPT ![p] = l] /\ UNCHANGED ret


\* the block of this run: blocks.NewBlockWithCid(buf.Bytes(), xcid)
Blk(p) == <<xcid[p], buf[p]>>

\* ------------------------------------------------- feed.CreateProfile steps
\* did.Parse, PanicIfNotInitialized, blockchain.ResolveENS
CreateProfileBegin(p) ==
    /\ pc[p] \in {"idle", "done"}
    /\ runs < MaxRuns
    /\ runs' = runs + 1
    /\ \E c \in Configs, o \in {"ok", "did_err", "ens_err"} :
         /\ cfg' = [cfg EXCEPT ![p] = c]
         /\ IF o = "ok"
              THEN pc' = [pc EXCEPT ![p] = "start"] /\ ret' = [ret EXCEPT ![p] = "none"]
              ELSE Return(p, o)
    /\ node' = [node EXCEPT ![p] = "none"]
    /\ subscribed' = [subscribed EXCEPT ![p] = FALSE]
    /\ buf' = [buf EXCEPT ![p] = <<>>]
    /\ xcid' = [xcid EXCEPT ![p] = <<>>]
    /\ seq' = [seq EXCEPT ![p] = 0]
    /\ nr' = [nr EXCEPT ![p] = <<>>]
    /\ err' = [err EXCEPT ![p] = "nil"]
    /\ shutdowns' = [shutdowns EXCEPT ![p] = 0]
    /\ trace' = [trace EXCEPT ![p] = <<>>]
    /\ cancelled' = [cancelled EXCEPT ![p] = FALSE]
    /\ caller' = [caller EXCEPT ![p] = "CreateProfile"]
    /\ saw' = [saw EXCEPT ![p] = 0]
    /\ UNCHANGED <<localStore, remoteVars, lsVars>>

\* ipfs.StartIPFSNode as called at the top of CreateProfile; initIPFSRepo gives
\* the node a new ds.NewMapDatastore()
StartIPFSNode(p) ==
    /\ pc[p] = "start"
    /\ \E o \in {"ok", "newnode_err", "coreapi_err", "w3sclient_err"}, sub \in BOOLEAN :
         /\ node' = [node EXCEPT ![p] = IF o = "newnode_err" THEN "none" ELSE "running"]
         /\ subscribed' = [subscribed EXCEPT ![p] = (o = "ok") /\ sub]
         /\ IF o = "ok" THEN Goto(p, "encode") ELSE Return(p, o)
    /\ localStore' = [localStore EXCEPT ![p] = {}]
    /\ UNCHANGED <<cfg, caller, saw, buf, xcid, seq, nr, err, shutdowns, trace, cancelled,
                   remoteVars, runs, lsVars>>

\* dagjson.Encode(dagnode, &buf)
Encode(p) ==
    /\ pc[p] = "encode"
    /\ \E o \in {"ok", "encode_err"} :
         IF o = "ok"
           THEN /\ buf' = [buf EXCEPT ![p] = EncodeProfile(cfg[p].did)]
                /\ Goto(p, "sum")
                /\ UNCHANGED <<node, shutdowns>>
           ELSE /\ ShutdownAndReturn(p, o)
                /\ UNCHANGED buf
    /\ UNCHANGED <<cfg, caller, saw, subscribed, localStore, xcid, seq, nr, err, trace,
                   cancelled, remoteVars, runs, lsVars>>

\* cidprefix.Sum(buf.Bytes())
Sum(p) ==
    /\ pc[p] = "sum"
    /\ \E o \in {"ok", "sum_err"} :
         IF o = "ok"
           THEN /\ xcid' = [xcid EXCEPT ![p] = CidPrefixSum(buf[p])]
                /\ Goto(p, "block")
                /\ UNCHANGED <<node, shutdowns>>
           ELSE /\ ShutdownAndReturn(p, o)
                /\ UNCHANGED xcid
    /\ UNCHANGED <<cfg, caller, saw, subscribed, localStore, buf, seq, nr, err, trace,
                   cancelled, remoteVars, runs, lsVars>>

\* blocks.NewBlockWithCid(buf.Bytes(), xcid)
NewBlockWithCid(p) ==
    /\ pc[p] = "block"
    /\ \E o \in {"ok", "block_err"} :
         IF o = "ok"
           THEN Goto(p, "pin") /\ UNCHANGED <<node, shutdowns>>
           ELSE ShutdownAndReturn(p, o)
    /\ UNCHANGED <<cfg, caller, saw, subscribed, localStore, buf, xcid, seq, nr, err, trace,
                   cancelled, remoteVars, runs, lsVars>>

\* the pin whose error is logged but does not end the run
PinAddContinue(p) ==
    /\ pc[p] = "pin"
    /\ \E o \in Outcomes(p, {"ok", "pin_err"}) :
         /\ localStore' = [localStore EXCEPT ![p] =
                             IF o = "ok" THEN StorePut(@, Blk(p)) ELSE @]
         /\ Log(p, Ev("pin", xcid[p], IF o = "ok" THEN "nil" ELSE o))
    /\ Goto(p, "publocal")
    /\ UNCHANGED <<cfg, caller, saw, node, subscribed, buf, xcid, seq, nr, err, shutdowns,
                   cancelled, remoteVars, runs, lsVars>>

\* ipfsNode.Dag().Pinning().Add(ctx, &ipldlegacy.LegacyNode{blk, dagnode})
PinAdd(p) ==
    /\ pc[p] = "pin"
    /\ \E o \in Outcomes(p, {"ok", "pin_err"}) :
         IF o = "ok"
           THEN /\ localStore' = [localStore EXCEPT ![p] = StorePut(@, Blk(p))]
                /\ Log(p, Ev("pin", xcid[p], "nil"))
                /\ Goto(p, "publocal")
                /\ UNCHANGED <<node, shutdowns>>
           ELSE /\ Log(p, Ev("pin", xcid[p], o))
                /\ ShutdownAndReturn(p, o)
                /\ UNCHANGED localStore
    /\ UNCHANGED <<cfg, caller, saw, subscribed, buf, xcid, seq, nr, err, cancelled,
                   remoteVars, runs, lsVars>>


\* ipfspath.IpldPath(cid).String()
IpldPathString(c) == <<"/ipld/", c>>

\* ipfs.PublishIPNSRecordForDAGNode: Api.Name().Publish(ctx, IpldPath(cid))
\* under the node's own key; env is what the node's publish call gives
PublishIPNSRecordForDAGNode(dht, key, c, env) ==
    IF env # "ok"
      THEN [err |-> env, dht |-> dht]
      ELSE [err |-> "nil",
            dht |-> dht \cup {[name |-> GetIPNSPublicKeyName(key),
                               value |-> IpldPathString(c)]}]

\* the put that reports a block the remote service already holds as an error
PinIPLDBlockRejectPresent(store, remote, c, env) ==
    IF env = "client_err"
      THEN [err |-> env, remote |-> remote]
    ELSE IF env \in {"car_err", "cancelled"} \/ ~HasBlock(store, c)
      THEN [err |-> IF env = "cancelled" THEN env ELSE "car_err", remote |-> remote]
    ELSE IF env # "ok"
      THEN [err |-> env, remote |-> remote]
    ELSE IF \E a \in remote : a.root = c
      THEN [err |-> "already_present", remote |-> remote]
    ELSE [err |-> "nil", remote |-> PutCar(remote, WriteCar(store, c))]

\* ipfs.PinIPLDBlockToW3S: NewClient, WriteCar from the node's DAG, PutCar
PinIPLDBlockToW3S(store, remote, c, env) ==
    IF env = "client_err"
      THEN [err |-> env, remote |-> remote]
    ELSE IF env \in {"car_err", "cancelled"} \/ ~HasBlock(store, c)
      THEN [err |-> IF env = "cancelled" THEN env ELSE "car_err", remote |-> remote]
    ELSE IF env # "ok"
      THEN [err |-> env, remote |-> remote]
    ELSE [err |-> "nil", remote |-> PutCar(remote, WriteCar(store, c))]

\* the local name publication followed by an early ipfsShutdown()
PublishLocalThenShutdown(p) ==
    /\ pc[p] = "publocal"
    /\ \E env \in Outcomes(p, {"ok", "publish_err"}) :
         LET r == PublishIPNSRecordForDAGNode(dhtNames, cfg[p].pub, xcid[p], env)
         IN  /\ dhtNames' = r.dht
             /\ Log(p, Ev("publocal", xcid[p], r.err))
    /\ shutdowns' = [shutdowns EXCEPT ![p] = @ + 1]
    /\ node' = [node EXCEPT ![p] = "closed"]
    /\ Goto(p, "archive")
    /\ UNCHANGED <<cfg, caller, saw, subscribed, localStore, buf, xcid, seq, nr, err,
                   cancelled, remoteCars, remoteNames, published, runs, lsVars>>

\* CreateProfile line 112: the call's result is not assigned
PublishLocal(p) ==
    /\ pc[p] = "publocal"
    /\ \E env \in Outcomes(p, {"ok", "publish_err"}) :
         LET r == PublishIPNSRecordForDAGNode(dhtNames, cfg[p].pub, xcid[p], env)
         IN  /\ dhtNames' = r.dht
             /\ Log(p, Ev("publocal", xcid[p], r.err))
    /\ Goto(p, "archive")
    /\ UNCHANGED <<cfg, caller, saw, node, subscribed, localStore, buf, xcid, seq, nr, err,
                   shutdowns, cancelled, remoteCars, remoteNames, published,
                   runs, lsVars>>

\* the remote archival step that unpins the block when the upload fails
PutIPFSDAGBlockToW3SRollback(p) ==
    /\ pc[p] = "archive"
    /\ \E env \in Outcomes(p, {"ok", "client_err", "car_err", "net_err", "auth_err"}) :
         LET r == PinIPLDBlockToW3S(localStore[p], remoteCars, xcid[p], env)
         IN  /\ remoteCars' = r.remote
             /\ Log(p, Ev("archive", xcid[p], r.err))
             /\ IF r.err = "nil"
                  THEN /\ Goto(p, "w3s_prepare")
                       /\ UNCHANGED <<node, shutdowns, localStore>>
                  ELSE /\ ShutdownAndReturn(p, r.err)
                       /\ localStore' = [localStore EXCEPT ![p] = {}]
    /\ UNCHANGED <<cfg, caller, saw, subscribed, buf, xcid, seq, nr, err,
                   cancelled, dhtNames, remoteNames, published, runs, lsVars>>

\* CreateProfile lines 113-118: ipfs.PutIPFSDAGBlockToW3S(ctx, ipfsNode, key, blk),
\* the remote archival put, whose body in package ipfs is PinIPLDBlockToW3S
PutIPFSDAGBlockToW3S(p) ==
    /\ pc[p] = "archive"
    /\ \E env \in Outcomes(p, {"ok", "client_err", "car_err", "net_err", "auth_err"}) :
         LET r == PinIPLDBlockToW3S(localStore[p], remoteCars, xcid[p], env)
         IN  /\ remoteCars' = r.remote
             /\ Log(p, Ev("archive", xcid[p], r.err))
             /\ IF r.err = "nil"
                  THEN Goto(p, "w3s_prepare") /\ UNCHANGED <<node, shutdowns>>
                  ELSE ShutdownAndReturn(p, r.err)
    /\ UNCHANGED <<cfg, caller, saw, subscribed, localStore, buf, xcid, seq, nr, err,
                   cancelled, dhtNames, remoteNames, published, runs, lsVars>>

\* ------------------------------- ipfs.PublishIPNSRecordForDAGNodeToW3S steps
\* lines 557-573: GetIPNSPublicKeyName, w3s.NewClient, crypto.UnmarshalPrivateKey
W3SPrepare(p) ==
    /\ pc[p] = "w3s_prepare"
    /\ \E o \in {"ok", "client_err", "privkey_err"} :
         /\ err' = [err EXCEPT ![p] = IF o = "ok" THEN "nil" ELSE o]
         /\ Goto(p, IF o = "ok" THEN "w3s_lookup" ELSE "shutdown")
    /\ UNCHANGED <<cfg, caller, saw, node, subscribed, localStore, buf, xcid, seq, nr,
                   shutdowns, trace, cancelled, remoteVars, runs, lsVars>>

\* the sequence number with the base taken as 0
NextSeqFromZero(r, e) == IF r # <<>> /\ e = "nil" THEN r[1].seq + 1 ELSE 0

\* the sequence number chosen from the lookup's result (lines 574-578)
NextSeq(r, e) == IF r # <<>> /\ e = "nil" THEN r[1].seq + 1 ELSE BaseSeq

\* the lookup that gives every caller a sequence number of its own
W3SGetNamePerCaller(p) ==
    /\ pc[p] = "w3s_lookup"
    /\ \E env \in Outcomes(p, {"ok", "transport_err"}) :
         LET r == IF env = "ok"
                    THEN GetName(remoteNames, IpfsPathString(xcid[p]))
                    ELSE <<>>
             e == IF env # "ok" THEN env
                  ELSE IF r = <<>> THEN "not_found" ELSE "nil"
         IN  /\ seq' = [seq EXCEPT ![p] = NextSeq(r, e) + p]
             /\ Log(p, Ev("getname", xcid[p], e))
    /\ saw' = [saw EXCEPT ![p] = Len(published)]
    /\ Goto(p, "w3s_build")
    /\ UNCHANGED <<cfg, caller, node, subscribed, localStore, buf, xcid, nr, err,
                   shutdowns, cancelled, remoteVars, runs, lsVars>>

\* lines 574-578: var seq uint64 = 1; r, err := c.GetName(ctx, p)
W3SGetName(p) ==
    /\ pc[p] = "w3s_lookup"
    /\ \E env \in Outcomes(p, {"ok", "transport_err"}) :
         LET r == IF env = "ok"
                    THEN GetName(remoteNames, IpfsPathString(xcid[p]))
                    ELSE <<>>
             e == IF env # "ok" THEN env
                  ELSE IF r = <<>> THEN "not_found" ELSE "nil"
         IN  /\ seq' = [seq EXCEPT ![p] = NextSeq(r, e)]
             /\ Log(p, Ev("getname", xcid[p], e))
    /\ saw' = [saw EXCEPT ![p] = Len(published)]
    /\ Goto(p, "w3s_build")
    /\ UNCHANGED <<cfg, caller, node, subscribed, localStore, buf, xcid, nr, err,
                   shutdowns, cancelled, remoteVars, runs, lsVars>>

\* the record construction that goes on to PutName after a failure
W3SBuildRecordIgnoreError(p) ==
    /\ pc[p] = "w3s_build"
    /\ \E o \in {"ok", "create_err", "embed_err"} :
         /\ nr' = [nr EXCEPT ![p] =
                     <<[value |-> IpfsPathString(xcid[p]), seq |-> seq[p],
                        signer |-> IF o = "create_err" THEN 0 ELSE cfg[p].priv,
                        pubkey |-> IF o = "embed_err" THEN 0 ELSE cfg[p].pub]>>]
         /\ err' = [err EXCEPT ![p] = IF o = "ok" THEN @ ELSE o]
    /\ Goto(p, "w3s_put")
    /\ UNCHANGED <<cfg, caller, saw, node, subscribed, localStore, buf, xcid, seq,
                   shutdowns, trace, cancelled, remoteVars, runs, lsVars>>

\* lines 580-593: ipns.Create, crypto.UnmarshalPublicKey, ipns.EmbedPublicKey
W3SBuildRecord(p) ==
    /\ pc[p] = "w3s_build"
    /\ \E o \in {"ok", "create_err", "embed_err"} :
         IF o = "ok"
           THEN /\ nr' = [nr EXCEPT ![p] =
                            <<[value |-> IpfsPathString(xcid[p]), seq |-> seq[p],
                               signer |-> cfg[p].priv, pubkey |-> cfg[p].pub]>>]
                /\ Goto(p, "w3s_put")
                /\ UNCHANGED err
           ELSE /\ err' = [err EXCEPT ![p] = o]
                /\ Goto(p, "shutdown")
                /\ UNCHANGED nr
    /\ UNCHANGED <<cfg, caller, saw, node, subscribed, localStore, buf, xcid, seq,
                   shutdowns, trace, cancelled, remoteVars, runs, lsVars>>

\* lines 595-601: err = c.PutName(ctx, nr, name); return err
W3SPutName(p) ==
    /\ pc[p] = "w3s_put"
    /\ \E env \in Outcomes(p, {"ok", "put_err"}) :
         LET name == GetIPNSPublicKeyName(cfg[p].pub)
         IN  IF env = "ok"
               THEN /\ remoteNames' = PutName(remoteNames, nr[p][1], name)
                    /\ published' = Append(published,
                                       [name |-> name, seq |-> nr[p][1].seq,
                                        value |-> nr[p][1].value,
                                        signer |-> nr[p][1].signer,
                                        pubkey |-> nr[p][1].pubkey,
                                        by |-> p, saw |-> saw[p]])
                    /\ Log(p, Ev("pubremote", xcid[p], "nil"))
                    /\ err' = [err EXCEPT ![p] = "nil"]
               ELSE /\ Log(p, Ev("pubremote", xcid[p], env))
                    /\ err' = [err EXCEPT ![p] = env]
                    /\ UNCHANGED <<remoteNames, published>>
    /\ Goto(p, "shutdown")
    /\ UNCHANGED <<cfg, caller, saw, node, subscribed, localStore, buf, xcid, seq, nr,
                   shutdowns, cancelled, dhtNames, remoteCars, runs, lsVars>>

\* CreateProfile lines 119-121: err = ...ToW3S(...); ipfsShutdown(); return err
CreateProfileReturn(p) ==
    /\ pc[p] = "shutdown"
    /\ caller[p] = "CreateProfile"
    /\ ShutdownAndReturn(p, err[p])
    /\ UNCHANGED <<cfg, caller, saw, subscribed, localStore, buf, xcid, seq, nr, err, trace,
                   cancelled, remoteVars, runs, lsVars>>

\* the caller cancels ctx while the run is in a blocking call
Cancel(p) ==
    /\ pc[p] \in {"pin", "publocal", "archive", "w3s_lookup", "w3s_put"}
    /\ ~cancelled[p]
    /\ cancelled' = [cancelled EXCEPT ![p] = TRUE]
    /\ UNCHANGED <<pc, cfg, caller, saw, node, subscribed, localStore, buf, xcid, seq, nr,
                   err, ret, shutdowns, trace, remoteVars, runs, lsVars>>

Step(p) ==
    \/ StartIPFSNode(p)
    \/ Encode(p)
    \/ Sum(p)
    \/ NewBlockWithCid(p)
    \/ PinAdd(p)
    \/ PublishLocal(p)
    \/ PutIPFSDAGBlockToW3S(p)
    \/ W3SPrepare(p)
    \/ W3SGetName(p)
    \/ W3SBuildRecord(p)
    \/ W3SPutName(p)
    \/ CreateProfileReturn(p)
    \/ Cancel(p)

\* publish operations invoked one after another by one caller
Next == CreateProfileBegin(Main) \/ Step(Main)

Spec == Init /\ [][Next]_vars

\* ------------------ ipfs.PublishIPNSRecordForDAGNodeToW3S called on its own
\* a call PublishIPNSRecordForDAGNodeToW3S(ctx, authToken, c, priv, pub)
PublishBegin(p) ==
    /\ pc[p] \in {"idle", "done"}
    /\ runs < MaxRuns
    /\ runs' = runs + 1
    /\ \E c \in AllCids, sk \in PrivKeys, pk \in PubKeys :
         /\ cfg' = [cfg EXCEPT ![p] = [did |-> 0, priv |-> sk, pub |-> pk]]
         /\ xcid' = [xcid EXCEPT ![p] = c]
    /\ pc' = [pc EXCEPT ![p] = "w3s_prepare"]
    /\ ret' = [ret EXCEPT ![p] = "none"]
    /\ caller' = [caller EXCEPT ![p] = "direct"]
    /\ node' = [node EXCEPT ![p] = "none"]
    /\ subscribed' = [subscribed EXCEPT ![p] = FALSE]
    /\ localStore' = [localStore EXCEPT ![p] = {}]
    /\ buf' = [buf EXCEPT ![p] = <<>>]
    /\ seq' = [seq EXCEPT ![p] = 0]
    /\ nr' = [nr EXCEPT ![p] = <<>>]
    /\ err' = [err EXCEPT ![p] = "nil"]
    /\ shutdowns' = [shutdowns EXCEPT ![p] = 0]
    /\ trace' = [trace EXCEPT ![p] = <<>>]
    /\ cancelled' = [cancelled EXCEPT ![p] = FALSE]
    /\ saw' = [saw EXCEPT ![p] = 0]
    /\ UNCHANGED <<remoteVars, lsVars>>

\* the function's return to a caller other than CreateProfile
PublishReturn(p) ==
    /\ pc[p] = "shutdown"
    /\ caller[p] = "direct"
    /\ Return(p, err[p])
    /\ UNCHANGED <<cfg, caller, saw, node, subscribed, localStore, buf, xcid,
                   seq, nr, err, shutdowns, trace, cancelled, remoteVars, runs,
                   lsVars>>

\* publish calls made by callers that do not wait for one another
NextPub ==
    \E p \in Procs :
        \/ PublishBegin(p)
        \/ W3SPrepare(p)
        \/ W3SGetName(p)
        \/ W3SBuildRecord(p)
        \/ W3SPutName(p)
        \/ PublishReturn(p)

SpecPub == Init /\ [][NextPub]_vars


\* ------------------------------------------- IPFSCore store and link system
BadKey == <<9>>                       \* bytes that are not a CID
LSKeys == AllCids \cup {BadKey}       \* lnk.Binary() / key strings passed in
Chunks == {<<>>, <<7>>, <<8>>}        \* byte slices handed to Write and Put

\* cid.CidFromBytes([]byte(key))
CidFromBytes(k) ==
    IF Len(k) = 5 /\ k[1] = CidVersion
      THEN [cid |-> k, err |-> "nil"]
      ELSE [cid |-> <<>>, err |-> "cid_err"]

\* bytes.Buffer.Read(d): drains the buffer into d
BufferRead(data, d) ==
    IF data = <<>>
      THEN [n |-> 0, err |-> IF d = <<>> THEN "nil" ELSE "EOF", data |-> data]
      ELSE LET n == IF Len(d) < Len(data) THEN Len(d) ELSE Len(data)
           IN  [n |-> n, err |-> "nil", data |-> SubSeq(data, n + 1, Len(data))]

\* IPFSLinkWriter.Write(d): return w.data.Read(d)
LinkWriterWrite(w, d) ==
    LET r == BufferRead(w.data, d)
    IN  [w EXCEPT !.data = r.data, !.written = @ \o d,
                  !.n = r.n, !.err = r.err]

\* IPFSLinkWriter.BlockWriteCommit(lnk): return nil
BlockWriteCommit(w, blocks, lnk) ==
    [w |-> [w EXCEPT !.committed = <<lnk>>, !.err = "nil"], blocks |-> blocks]

\* IPFSCore.OpenWrite
OpenWrite(lnk) ==
    /\ ops < MaxOps
    /\ ops' = ops + 1
    /\ LET k == CidFromBytes(lnk)
       IN  IF k.err # "nil"
             THEN lw' = <<>>
             ELSE lw' = <<[cid |-> k.cid, data |-> <<>>, written |-> <<>>,
                           committed |-> <<>>, n |-> 0, err |-> "nil"]>>
    /\ rd' = <<>>
    /\ UNCHANGED <<core, w3sLog, hs, evLink, pt, procVars, remoteVars, runs>>

\* a write to the io.Writer returned by OpenWrite
Write(d) ==
    /\ ops < MaxOps
    /\ lw # <<>>
    /\ lw[1].committed = <<>>
    /\ ops' = ops + 1
    /\ lw' = <<LinkWriterWrite(lw[1], d)>>
    /\ rd' = <<>>
    /\ UNCHANGED <<core, w3sLog, hs, evLink, pt, procVars, remoteVars, runs>>

\* a call of the BlockWriteCommitter returned by OpenWrite
Commit(lnk) ==
    /\ ops < MaxOps
    /\ lw # <<>>
    /\ lw[1].committed = <<>>
    /\ ops' = ops + 1
    /\ LET r == BlockWriteCommit(lw[1], core.blocks, lnk)
       IN  /\ lw' = <<r.w>>
           /\ core' = [core EXCEPT !.blocks = r.blocks]
    /\ rd' = <<>>
    /\ UNCHANGED <<w3sLog, hs, evLink, pt, procVars, remoteVars, runs>>

\* IPFSCore.OpenRead
OpenRead(lnk) ==
    /\ ops < MaxOps
    /\ ops' = ops + 1
    /\ LET k == CidFromBytes(lnk)
       IN  rd' = IF k.err # "nil"
                   THEN <<[link |-> lnk, err |-> k.err, data |-> <<>>]>>
                 ELSE IF ~HasBlock(core.blocks, k.cid)
                   THEN <<[link |-> lnk, err |-> "not_found", data |-> <<>>]>>
                 ELSE <<[link |-> lnk, err |-> "nil",
                         data |-> BlockData(core.blocks, k.cid)]>>
    /\ UNCHANGED <<core, lw, w3sLog, hs, evLink, pt, procVars, remoteVars, runs>>

\* the error of the first local step of Put that fails ("nil" if none does):
\* cid.CidFromBytes, ipldlegacy.DecodeNode, Api.Dag().Pinning().Add
LocalErr(k, o) == IF k.err # "nil" THEN k.err ELSE IF o # "ok" THEN o ELSE "nil"

\* the Put that goes on to the remote upload after a failed local pin
IPFSCorePutUploadAnyway(key, data) ==
    /\ ops < MaxOps
    /\ ops' = ops + 1
    /\ \E o \in {"ok", "decode_err", "pin_err"},
          env \in {"ok", "client_err", "car_err", "net_err", "auth_err"} :
         LET k == CidFromBytes(key)
             e == LocalErr(k, o)
         IN  IF e \notin {"nil", "pin_err"}
               THEN /\ env = "ok"
                    /\ pt' = <<[key |-> key, local |-> e, uploads |-> 0,
                                remote |-> "none", err |-> e]>>
                    /\ UNCHANGED <<core, remoteCars, w3sLog>>
               ELSE LET blocks == IF e = "nil"
                                    THEN StorePut(core.blocks, <<k.cid, data>>)
                                    ELSE core.blocks
                        r == PinIPLDBlockToW3S(blocks, remoteCars, k.cid, env)
                    IN  /\ core' = [core EXCEPT !.blocks = blocks]
                        /\ remoteCars' = r.remote
                        /\ w3sLog' = Append(w3sLog,
                                       [cid |-> k.cid, env |-> env, err |-> r.err,
                                        present |-> \E a \in remoteCars : a.root = k.cid])
                        /\ pt' = <<[key |-> key, local |-> e, uploads |-> 1,
                                    remote |-> r.err, err |-> r.err]>>
    /\ UNCHANGED <<lw, rd, hs, procVars, dhtNames, remoteNames, published, runs>>

\* IPFSCore.Put, as called by a user of the store or by the link system
IPFSCorePut(key, data) ==
    /\ ops < MaxOps
    /\ ops' = ops + 1
    /\ \E o \in {"ok", "decode_err", "pin_err"},
          env \in {"ok", "client_err", "car_err", "net_err", "auth_err"} :
         LET k == CidFromBytes(key)
             e == LocalErr(k, o)
         IN  IF e # "nil"
               THEN /\ env = "ok"
                    \* return err
                    /\ pt' = <<[key |-> key, local |-> e, uploads |-> 0,
                                remote |-> "none", err |-> e]>>
                    /\ UNCHANGED <<core, remoteCars, w3sLog>>
               ELSE LET blocks == StorePut(core.blocks, <<k.cid, data>>)
                        r == PinIPLDBlockToW3S(blocks, remoteCars, k.cid, env)
                    IN  /\ core' = [core EXCEPT !.blocks = blocks]
                        /\ remoteCars' = r.remote
                        /\ w3sLog' = Append(w3sLog,
                                       [cid |-> k.cid, env |-> env, err |-> r.err,
                                        present |-> \E a \in remoteCars : a.root = k.cid])
                        \* _, err = PinIPLDBlockToW3S(...); return err
                        /\ pt' = <<[key |-> key, local |-> "nil", uploads |-> 1,
                                    remote |-> r.err, err |-> r.err]>>
    /\ UNCHANGED <<lw, rd, hs, procVars, dhtNames, remoteNames, published, runs>>

\* IPFSCore.Put
Put(key, data) == IPFSCorePut(key, data) /\ UNCHANGED evLink

\* the result of IPFSCore.Has at a store holding blocks
IPFSCoreHas(blocks, key) ==
    LET k == CidFromBytes(key)
    IN  IF k.err # "nil"
          THEN [key |-> key, found |-> FALSE, err |-> k.err, present |-> FALSE]
          ELSE LET present == HasBlock(blocks, k.cid)
                   \* _, err = store.Api.Block().Stat(ctx, ipfspath.IpldPath(cid))
                   statErr == IF present THEN "nil" ELSE "not_found"
               IN  \* return err != nil, err
                   [key |-> key, found |-> statErr # "nil", err |-> statErr,
                    present |-> present]

\* IPFSCore.Has
Has(key) ==
    /\ ops < MaxOps
    /\ ops' = ops + 1
    /\ hs' = <<IPFSCoreHas(core.blocks, key)>>
    /\ UNCHANGED <<core, lw, rd, w3sLog, evLink, pt, procVars, remoteVars, runs>>

NostrEvents == {1, 2}                 \* evt.ID of the events stored

\* the DAG-JSON bytes of the map node built from evt by qp.BuildMap
EncodeEvent(e) == <<123, 105, 100, 58, e, 125>>

\* the sum with the hash taken as sha2-512, as the comments of lines 626-627 say
LinkPrototypeSumSha512(b) == <<LpVersion, LpCodec, 19, 64, Digest(b)>>

\* cidlink.LinkPrototype{Prefix: cid.Prefix{...}}: the link built for bytes b
LinkPrototypeSum(b) == <<LpVersion, LpCodec, LpMhType, LpMhLength, Digest(b)>>

\* ipfs.PutNostrEventAsIPLDLink: ipfs.LS.Store(linking.LinkContext{}, lp, dagnode),
\* whose write storage is the IPFSCore set by lsys.SetWriteStorage(&core)
PutNostrEventAsIPLDLink(evt) ==
    \E o \in {"ok", "build_err"} :
        IF o = "ok"
          THEN LET b == EncodeEvent(evt)
                   l == LinkPrototypeSum(b)
               IN  /\ IPFSCorePut(l, b)
                   /\ evLink' = <<[bytes |-> b, link |-> l]>>
          ELSE /\ ops < MaxOps
               /\ ops' = ops + 1
               /\ UNCHANGED <<core, lw, rd, w3sLog, hs, evLink, pt, procVars,
                              remoteVars, runs>>

NextLS ==
    \/ \E k \in LSKeys : OpenWrite(k)
    \/ \E d \in Chunks : Write(d)
    \/ \E k \in AllCids : Commit(k)
    \/ \E k \in LSKeys : OpenRead(k)
    \/ \E k \in LSKeys, d \in Chunks \ {<<>>} : Put(k, d)

SpecLS == Init /\ [][NextLS]_vars

\* the store used directly and through the link system's Store
NextStore ==
    /\ ops < MaxStoreOps
    /\ \/ \E k \in LSKeys, d \in Chunks \ {<<>>} : Put(k, d)
       \/ \E k \in LSKeys : Has(k)
       \/ \E e \in NostrEvents : PutNostrEventAsIPLDLink(e)

SpecStore == Init /\ [][NextStore]_vars


\* ================================================================== claims
\* StartIPFSNode returned a handle to this run
StartSucceeded(p) ==
    /\ pc[p] \notin {"idle", "start"}
    /\ ~(pc[p] = "done" /\ ret[p] \in {"did_err", "ens_err", "newnode_err",
                                       "coreapi_err", "w3sclient_err"})

\* event e of the run's trace comes before position i
Before(p, i, e) == \E j \in 1..(i - 1) : trace[p][j] = e

NameOps == {"publocal", "pubremote"}

\* C1: in every run of CreateProfile whose StartIPFSNode succeeded, the
\* shutdown function is never invoked twice, and it has been invoked exactly
\* once when CreateProfile has returned, whatever the exit path.
C1_ShutdownExactlyOnce ==
    \A p \in Procs :
        StartSucceeded(p) =>
            /\ shutdowns[p] <= 1
            /\ pc[p] = "done" => shutdowns[p] = 1 /\ node[p] = "closed"

\* a run that failed at the remote archival step and has returned
C1_Witness ==
    \E p \in Procs :
        /\ pc[p] = "done" /\ ret[p] = "net_err"
        /\ shutdowns[p] = 1

\* C2: within one run the remote archival upload is made only after the
\* local pin succeeded, and a name record is published, to the local node or
\* to the remote service, only after the remote archival upload succeeded.
C2_PinThenArchiveThenNames ==
    \A p \in Procs : \A i \in DOMAIN trace[p] :
        LET e == trace[p][i]
        IN  /\ e.op = "archive" => Before(p, i, Ev("pin", e.cid, "nil"))
            /\ (e.op \in NameOps /\ e.err = "nil")
                  => Before(p, i, Ev("archive", e.cid, "nil"))

\* C3: every name record published by a run, locally or remotely, targets a
\* CID whose block the run pinned before and which its node's store holds;
\* after a failed pin the run publishes nothing.
C3_PublishedOnlyAfterPin ==
    \A p \in Procs : \A i \in DOMAIN trace[p] :
        LET e == trace[p][i]
        IN  /\ (e.op \in NameOps /\ e.err = "nil")
                  => /\ Before(p, i, Ev("pin", e.cid, "nil"))
                     /\ HasBlock(localStore[p], e.cid)
            /\ (e.op = "pin" /\ e.err # "nil")
                  => \A j \in DOMAIN trace[p] : j > i => trace[p][j].op \notin NameOps

\* a run that published its record to the remote service
C3_Witness ==
    \E p \in Procs : \E i \in DOMAIN trace[p] :
        /\ trace[p][i] = Ev("pubremote", xcid[p], "nil")
        /\ Before(p, i, Ev("publocal", xcid[p], "nil"))

\* C4: of the records stored by successive successful calls of
\* PublishIPNSRecordForDAGNodeToW3S under one name, each has a sequence
\* number strictly greater than the one stored before it.
C4_MonotonicSequence ==
    \A i, j \in DOMAIN published :
        (i < j /\ published[i].name = published[j].name)
            => published[i].seq < published[j].seq

\* C5: when the remote service holds no record for the name, the record
\* built by PublishIPNSRecordForDAGNodeToW3S carries sequence number 1.
C5_FirstSequenceIsBase ==
    \A p \in Procs :
        (pc[p] = "w3s_put"
           /\ remoteNames[GetIPNSPublicKeyName(cfg[p].pub)] = <<>>)
            => nr[p][1].seq = 1

\* a record built for a name the remote service has no record of
C5_Witness ==
    \E p \in Procs :
        /\ pc[p] = "w3s_put"
        /\ remoteNames[GetIPNSPublicKeyName(cfg[p].pub)] = <<>>
        /\ nr[p][1].seq = 1

\* C6: after the lookup of the current record failed with a transport
\* failure, the call publishes no record and CreateProfile returns an error.
C6_TransportFailureIsFatal ==
    \A p \in Procs : \A i \in DOMAIN trace[p] :
        trace[p][i] = Ev("getname", xcid[p], "transport_err")
            => /\ \A j \in DOMAIN trace[p] :
                     j > i => trace[p][j] # Ev("pubremote", xcid[p], "nil")
               /\ pc[p] = "done" => ret[p] # "nil"

StepOps == {"pin", "publocal", "archive", "pubremote"}

\* C7: a failed step of CreateProfile is the last step the run executes and
\* makes it return a non-nil error; nil is returned only when every step
\* succeeded.
C7_NoErrorSwallowed ==
    \A p \in Procs : \A i \in DOMAIN trace[p] :
        (trace[p][i].op \in StepOps /\ trace[p][i].err # "nil")
            => /\ i = Len(trace[p])
               /\ pc[p] = "done" => ret[p] # "nil"

\* C8: a read of the link made after OpenWrite on it, a write of some bytes
\* and the commit of that link yields the bytes that were written.
C8_RoundTrip ==
    (rd # <<>> /\ lw # <<>> /\ lw[1].committed = <<rd[1].link>>
       /\ lw[1].cid = rd[1].link /\ lw[1].written # <<>>)
        => rd[1].err = "nil" /\ rd[1].data = lw[1].written

\* the block stored under the writer's CID holds the bytes written
Routed(w, blocks) == HasBlock(blocks, w.cid) /\ BlockData(blocks, w.cid) = w.written

\* C9: a write to the link writer changes no storage backend, and once the
\* commit function has returned without error the bytes written are stored
\* under the committed link.
C9_TwoPhaseWrite ==
    [][ /\ (lw # <<>> /\ lw' # <<>> /\ lw[1].committed = <<>>
              /\ lw'[1].committed = <<>> /\ lw'[1].cid = lw[1].cid)
            => UNCHANGED <<core, remoteCars>>
        /\ (lw' # <<>> /\ lw'[1].committed # <<>> /\ lw'[1].err = "nil"
              /\ lw'[1].written # <<>>)
            => Routed(lw'[1], core'.blocks) ]_vars

C11_HasIsExistence ==
    (hs # <<>> /\ CidFromBytes(hs[1].key).err = "nil")
        => hs[1].found = hs[1].present


GetPublic(sk) == sk

\* C12: every record stored under a name is signed by the private key whose
\* public key the name is derived from, and embeds that public key.
C12_SignedByNameKey ==
    \A i \in DOMAIN published :
        /\ GetIPNSPublicKeyName(GetPublic(published[i].signer)) = published[i].name
        /\ GetIPNSPublicKeyName(published[i].pubkey) = published[i].name


SigningErrors == {"privkey_err", "create_err", "embed_err"}

\* C13: when unmarshalling the private key, creating the signed record or
\* embedding the public key fails, the function returns that error and makes
\* no PutName call; every PutName call carries a record signed with the given
\* private key and embedding the given public key.
C13_NeverUnsigned ==
    \A p \in Procs :
        /\ err[p] \in SigningErrors
             => /\ \A i \in DOMAIN trace[p] : trace[p][i].op # "pubremote"
                /\ pc[p] = "done" => ret[p] = err[p]
        /\ (\E i \in DOMAIN trace[p] : trace[p][i].op = "pubremote")
             => /\ nr[p] # <<>>
                /\ nr[p][1].signer = cfg[p].priv
                /\ nr[p][1].pubkey = cfg[p].pub

\* a call that returned the error of the record's creation
C13_Witness ==
    \E p \in Procs :
        /\ pc[p] = "done" /\ ret[p] = "create_err"
        /\ \A i \in DOMAIN trace[p] : trace[p][i].op # "pubremote"

\* C14: a run of CreateProfile whose context was cancelled during a blocking
\* call returns the cancellation error, and its shutdown function was invoked.
C14_CancellationPropagates ==
    \A p \in Procs :
        (cancelled[p] /\ pc[p] = "done")
            => ret[p] = "cancelled" /\ shutdowns[p] = 1

\* the CID a stored name record points at
TargetCid(rec) == rec.value[2]

\* C16: once a publish operation has returned successfully, the block of
\* every CID published so far, by it or by an earlier operation, is held by
\* the remote store and by the local store of the caller's node.
C16_HistoryKept ==
    \A i \in DOMAIN published :
        (pc[published[i].by] = "done" /\ ret[published[i].by] = "nil")
            => /\ \E a \in remoteCars : a.root = TargetCid(published[i])
               /\ HasBlock(localStore[published[i].by], TargetCid(published[i]))

\* C17: whenever StartIPFSNode returned a handle without error, the
\* subscription to the "patr" topic is established.
C17_SubscribedOnSuccess ==
    \A p \in Procs : StartSucceeded(p) => subscribed[p]

\* the step of p is the failure of the remote archival or of the remote name
\* publication, or the return that follows it
FailingRemoteStep(p) ==
    /\ pc[p] \in {"archive", "w3s_put", "shutdown"}
    /\ pc'[p] \in {"shutdown", "done"}
    /\ \/ pc'[p] = "done" /\ ret'[p] # "nil"
       \/ pc'[p] = "shutdown" /\ err'[p] # "nil"

\* C18: a step of CreateProfile in which the remote archival or the remote
\* name publication fails, and the return after it, leave the blocks pinned
\* locally and everything stored remotely as they were.
C18_NoRollback ==
    [][\A p \in Procs :
          FailingRemoteStep(p)
            => /\ localStore'[p] = localStore[p]
               /\ remoteCars' = remoteCars
               /\ remoteNames' = remoteNames
               /\ dhtNames' = dhtNames]_vars

\* a run that returned the error of the remote name publication, with its
\* block still pinned and its archive still uploaded
C18_Witness ==
    \E p \in Procs :
        /\ pc[p] = "done" /\ ret[p] = "put_err"
        /\ HasBlock(localStore[p], xcid[p])
        /\ \E a \in remoteCars : a.root = xcid[p]

\* C19: records stored under one name by calls whose lookups saw the same
\* state of the remote service carry the same sequence number; no call's
\* number is kept apart from another's.
C19_SameLookupSameSequence ==
    \A i, j \in DOMAIN published :
        (i < j /\ published[i].name = published[j].name
           /\ published[i].saw = published[j].saw)
            => published[i].seq = published[j].seq

\* two callers that both looked up before either stored, and stored records
\* with the same sequence number under the same name
C19_Witness ==
    \E i, j \in DOMAIN published :
        /\ i < j
        /\ published[i].name = published[j].name
        /\ published[i].by # published[j].by
        /\ published[j].saw < i
        /\ published[i].seq = published[j].seq

StartErrors == {"newnode_err", "coreapi_err", "w3sclient_err"}

\* C20: whenever StartIPFSNode returned an error, the node it constructed is
\* not left running.
C20_NoNodeLeftRunning ==
    \A p \in Procs :
        (pc[p] = "done" /\ ret[p] \in StartErrors) => node[p] # "running"


\* the calls of CreateProfile that go through the node handle
NodeOps == {"pin", "publocal", "archive"}

\* the step of p makes a call through the node handle
UsesNode(p) ==
    /\ Len(trace'[p]) = Len(trace[p]) + 1
    /\ trace'[p][Len(trace'[p])].op \in NodeOps

\* C21: every call of CreateProfile that uses the node handle is made while
\* the node is running and before any invocation of the shutdown function,
\* and the step that invokes shutdown is the one that returns.
C21_NoUseAfterShutdown ==
    [][\A p \in Procs :
          /\ UsesNode(p) => node[p] = "running" /\ shutdowns[p] = 0
          /\ shutdowns'[p] > shutdowns[p] => pc'[p] = "done"]_vars

\* a run that pinned, published locally, archived, and then shut down
C21_Witness ==
    \E p \in Procs :
        /\ pc[p] = "done" /\ shutdowns[p] = 1 /\ node[p] = "closed"
        /\ \E i, j, k \in DOMAIN trace[p] :
             /\ i < j /\ j < k
             /\ trace[p][i].op = "pin"
             /\ trace[p][j].op = "publocal"
             /\ trace[p][k].op = "archive"


\* C22: the last IPFSCore.Put made a remote upload only if its key decoding,
\* node decoding and local pin all succeeded; when one of them failed it
\* returned that error and made no upload; when they succeeded and the upload
\* failed it returned the upload's error and the block is pinned locally.
C22_PutLocalThenRemote ==
    pt # <<>> =>
        /\ pt[1].uploads = 1 => pt[1].local = "nil"
        /\ pt[1].local # "nil"
             => /\ pt[1].err = pt[1].local
                /\ pt[1].uploads = 0
        /\ (pt[1].local = "nil" /\ pt[1].remote # "nil")
             => /\ pt[1].err = pt[1].remote
                /\ HasBlock(core.blocks, CidFromBytes(pt[1].key).cid)

\* a Put whose local pin succeeded and whose remote upload failed
C22_Witness ==
    /\ pt # <<>>
    /\ pt[1].local = "nil" /\ pt[1].uploads = 1
    /\ pt[1].remote = "net_err" /\ pt[1].err = "net_err"
    /\ HasBlock(core.blocks, CidFromBytes(pt[1].key).cid)

====
